---- MODULE Spec2Model ----
(***************************************************************************)
(* DocumentTagger (src/python/llm/tag_document_ollama.py): four sequential *)
(* chat calls per attempt (title, category, tags, description), schema     *)
(* validation of the assembled record, and a retry loop over whole         *)
(* attempts.  Strings are sequences of one-character strings, so that      *)
(* len(), slicing, str.strip() and str.split() are computed, not assumed.  *)
(***************************************************************************)
EXTENDS Integers, Sequences, FiniteSets, TLC

VARIABLES
    max_retries,        \* self.max_retries, set by __init__ and never checked
    document_content,   \* the argument of get_tags
    pc,                 \* "idle", the pending step of get_tags, or "done"
    attempt,            \* the loop variable of `for attempt in range(...)`
    title,              \* local of get_tags (survives a failed attempt)
    category,           \* local of get_tags
    tags,               \* local of get_tags
    description,        \* local of get_tags
    chat,               \* name of the chat dependency bound to the module
    request,            \* the last request handed to chat()
    calls,              \* number of chat() invocations so far
    replies,            \* history: what chat() did on each call of this attempt
    attemptLog,         \* history: one entry per failed attempt
    log,                \* records emitted through logger
    outcome,            \* "pending", "returned", "raised" or "none"
    result              \* the returned dict, or NoResult

vars ==
    <<max_retries, document_content, pc, attempt, title, category, tags,
      description, chat, request, calls, replies, attemptLog, log, outcome,
      result>>

----------------------------------------------------------------------------
(* Bounds of the model *)

\* largest max_retries a tagger is constructed with
MaxRetriesBound ==
    2

\* the constructor accepts any integer: these are the values below 1
NonPositiveRetries ==
    {-1, 0}

----------------------------------------------------------------------------
(* Program constants *)

TitleMinLen ==
    1

TitleMaxLen ==
    200

CategoryMinLen ==
    1

CategoryMaxLen ==
    50

TagsMinLen ==
    1

DescriptionMinLen ==
    10

DescriptionMaxLen ==
    1000

TitleDocChars ==
    1000

CategoryDocChars ==
    1000

TagsDocChars ==
    1500

NumCtx ==
    2048

MaxTokens ==
    200

model_name ==
    "llama3.2"

----------------------------------------------------------------------------
(* class DocumentCategory(str, Enum) *)

DISTRIBUTED_SYSTEMS ==
    <<"D", "i", "s", "t", "r", "i", "b", "u", "t", "e", "d", " ", "S", "y", "s", "t", "e", "m", "s">>

NATURAL_LANGUAGE_PROCESSING ==
    <<"N", "a", "t", "u", "r", "a", "l", " ", "L", "a", "n", "g", "u", "a", "g", "e", " ", "P", "r", "o", "c", "e", "s", "s", "i", "n", "g">>

HARDWARE ==
    <<"H", "a", "r", "d", "w", "a", "r", "e">>

ALGORITHMS ==
    <<"A", "l", "g", "o", "r", "i", "t", "h", "m", "s">>

PERFORMANCE_ENGINEERING ==
    <<"P", "e", "r", "f", "o", "r", "m", "a", "n", "c", "e", " ", "E", "n", "g", "i", "n", "e", "e", "r", "i", "n", "g">>

NETWORKS ==
    <<"N", "e", "t", "w", "o", "r", "k", "s">>

TEACHING ==
    <<"T", "e", "a", "c", "h", "i", "n", "g">>

MACHINE_LEARNING ==
    <<"M", "a", "c", "h", "i", "n", "e", " ", "L", "e", "a", "r", "n", "i", "n", "g">>

LINEAR_ALGEBRA ==
    <<"L", "i", "n", "e", "a", "r", " ", "A", "l", "g", "e", "b", "r", "a">>

OPERATING_SYSTEMS ==
    <<"O", "p", "e", "r", "a", "t", "i", "n", "g", " ", "S", "y", "s", "t", "e", "m", "s">>

COMPUTER_SCIENCE ==
    <<"C", "o", "m", "p", "u", "t", "e", "r", " ", "S", "c", "i", "e", "n", "c", "e">>

DATABASE_DESIGN ==
    <<"D", "a", "t", "a", "b", "a", "s", "e", " ", "D", "e", "s", "i", "g", "n">>

DATABASE_SYSTEMS ==
    <<"D", "a", "t", "a", "b", "a", "s", "e", " ", "S", "y", "s", "t", "e", "m", "s">>

GRAPH_THEORY ==
    <<"G", "r", "a", "p", "h", " ", "T", "h", "e", "o", "r", "y">>

MATHEMATICS ==
    <<"M", "a", "t", "h", "e", "m", "a", "t", "i", "c", "s">>

OPERATIONS_RESEARCH ==
    <<"O", "p", "e", "r", "a", "t", "i", "o", "n", "s", " ", "R", "e", "s", "e", "a", "r", "c", "h">>

SOFTWARE_ENGINEERING ==
    <<"S", "o", "f", "t", "w", "a", "r", "e", " ", "E", "n", "g", "i", "n", "e", "e", "r", "i", "n", "g">>

SYSTEM_DESIGN ==
    <<"S", "y", "s", "t", "e", "m", " ", "D", "e", "s", "i", "g", "n">>

RESEARCH ==
    <<"R", "e", "s", "e", "a", "r", "c", "h">>

SYSTEMS ==
    <<"S", "y", "s", "t", "e", "m", "s">>

OTHER_CATEGORY ==
    <<"O", "t", "h", "e", "r">>

DocumentCategory ==
    {DISTRIBUTED_SYSTEMS, NATURAL_LANGUAGE_PROCESSING, HARDWARE, ALGORITHMS, PERFORMANCE_ENGINEERING, NETWORKS, TEACHING, MACHINE_LEARNING, LINEAR_ALGEBRA, OPERATING_SYSTEMS, COMPUTER_SCIENCE, DATABASE_DESIGN, DATABASE_SYSTEMS, GRAPH_THEORY, MATHEMATICS, OPERATIONS_RESEARCH, SOFTWARE_ENGINEERING, SYSTEM_DESIGN, RESEARCH, SYSTEMS, OTHER_CATEGORY}

----------------------------------------------------------------------------
(* Python string operations used by the tagger *)

Whitespace ==
    {" ", "\t", "\n", "\r"}

\* str.strip(): drop leading and trailing whitespace
strip(s) ==
    IF \A i \in 1..Len(s) : s[i] \in Whitespace
    THEN <<>>
    ELSE LET first == CHOOSE i \in 1..Len(s) :
                          /\ s[i] \notin Whitespace
                          /\ \A j \in 1..(i - 1) : s[j] \in Whitespace
             last == CHOOSE i \in 1..Len(s) :
                         /\ s[i] \notin Whitespace
                         /\ \A j \in (i + 1)..Len(s) : s[j] \in Whitespace
         IN SubSeq(s, first, last)

\* s[:n] for n >= 0
SliceMissingBound(s, n) ==
    s

Slice(s, n) ==
    SubSeq(s, 1, IF n < Len(s) THEN n ELSE Len(s))

\* s.split("\n"), as the set of positions where a line starts
LineStarts(s) ==
    {1} \cup {i + 1 : i \in {j \in 1..Len(s) : s[j] = "\n"}}

\* the line of s.split("\n") that starts at position p
LineAt(s, p) ==
    LET stop == CHOOSE e \in p..(Len(s) + 1) :
                    /\ e = Len(s) + 1 \/ s[e] = "\n"
                    /\ \A k \in p..(e - 1) : s[k] # "\n"
    IN SubSeq(s, p, stop - 1)

\* line.startswith("#")
startswith(line, c) ==
    Len(line) >= 1 /\ line[1] = c

RECURSIVE JoinLines(_, _)
\* "\n".join(...) of the lines of s starting at the positions in ps, in order
JoinLines(s, ps) ==
    IF ps = {}
    THEN <<>>
    ELSE LET p == CHOOSE x \in ps : \A y \in ps : x <= y
             rest == ps \ {p}
         IN IF rest = {}
            THEN LineAt(s, p)
            ELSE LineAt(s, p) \o <<"\n">> \o JoinLines(s, rest)

\* "\n".join([line for line in document_content.split("\n") if line.startswith("#")])
Headers(s) ==
    JoinLines(s, {p \in LineStarts(s) : startswith(LineAt(s, p), "#")})

----------------------------------------------------------------------------
(* class TaggingModel(BaseModel) *)

FieldOKExclusive(v, lo, hi) ==
    lo <= Len(v) /\ Len(v) < hi

\* Field(..., min_length=lo, max_length=hi) on a str
FieldOK(v, lo, hi) ==
    lo <= Len(v) /\ Len(v) <= hi

validate_tags_rejoined(v) ==
    SelectSeq(v, LAMBDA c : c # " ")

\* @validator("tags"): splits and strips into a local list, returns v unchanged
validate_tags(v) ==
    v

validate_category_unchecked(v) ==
    v

\* @validator("category"): DocumentCategory(v).value, or OTHER_CATEGORY on ValueError
validate_category(v) ==
    IF v \in DocumentCategory THEN v ELSE OTHER_CATEGORY

TaggingModelNoDescriptionBound(d) ==
    [ok |-> /\ FieldOK(d.title, TitleMinLen, TitleMaxLen)
            /\ FieldOK(d.category, CategoryMinLen, CategoryMaxLen)
            /\ Len(d.tags) >= TagsMinLen,
     dump |-> [title |-> d.title,
               category |-> validate_category(d.category),
               tags |-> validate_tags(d.tags),
               description |-> d.description]]

\* TaggingModel(**tags_dict) followed by model_dump(): the length constraints
\* of every field are checked first; a validator runs on a field that passed
\* them and replaces its value.  ok = FALSE stands for ValidationError.
TaggingModel(d) ==
    [ok |-> /\ FieldOK(d.title, TitleMinLen, TitleMaxLen)
            /\ FieldOK(d.category, CategoryMinLen, CategoryMaxLen)
            /\ Len(d.tags) >= TagsMinLen
            /\ FieldOK(d.description, DescriptionMinLen, DescriptionMaxLen),
     dump |-> [title |-> d.title,
               category |-> validate_category(d.category),
               tags |-> validate_tags(d.tags),
               description |-> d.description]]

----------------------------------------------------------------------------
(* Prompt builders: the f-string templates are fixed text, a prompt is     *)
(* modelled by the values interpolated into its template.                  *)

_create_title_prompt(doc) ==
    [field |-> "title",
     context |-> Slice(doc, TitleDocChars)]

_create_category_prompt(doc, t) ==
    [field |-> "category",
     title |-> t,
     context |-> Slice(doc, CategoryDocChars),
     categories |-> DocumentCategory]

_create_tags_prompt_swapped(doc, t, c) ==
    [field |-> "tags",
     title |-> c,
     category |-> t,
     context |-> Slice(doc, TagsDocChars)]

_create_tags_prompt(doc, t, c) ==
    [field |-> "tags",
     title |-> t,
     category |-> c,
     context |-> Slice(doc, TagsDocChars)]

_create_description_prompt(doc, t, c, g) ==
    [field |-> "description",
     title |-> t,
     category |-> c,
     tags |-> g,
     headers |-> Headers(doc)]

\* the keyword arguments of chat() in _get_single_field
ChatRequest(prompt) ==
    [model |-> model_name,
     user |-> prompt,
     options |-> [num_ctx |-> NumCtx, max_tokens |-> MaxTokens]]

_get_single_field_swallowing(reply) ==
    IF reply.kind = "ok"
    THEN [raised |-> FALSE, value |-> strip(reply.content)]
    ELSE [raised |-> FALSE, value |-> <<>>]

\* _get_single_field, given what chat() did: response["message"]["content"]
\* stripped, or the exception logged and re-raised
_get_single_field(reply) ==
    IF reply.kind = "ok"
    THEN [raised |-> FALSE, value |-> strip(reply.content)]
    ELSE [raised |-> TRUE, value |-> <<>>]

----------------------------------------------------------------------------
(* Inputs: documents and what the chat dependency may do on a call *)

Rep(c, n) ==
    [i \in 1..n |-> c]

\* "# Raft\nterm\n## Log\n#"
RaftDoc ==
    <<"#", " ", "R", "a", "f", "t", "\n", "t", "e", "r", "m", "\n",
      "#", "#", " ", "L", "o", "g", "\n", "#">>

\* RaftDoc continued to n characters; every 500th character ends a line and
\* the next one opens a heading, the others cycle through a, b, c
LongDoc(n) ==
    [i \in 1..n |->
        IF i <= Len(RaftDoc) THEN RaftDoc[i]
        ELSE IF i % 500 = 0 THEN "\n"
        ELSE IF i % 500 = 1 THEN "#"
        ELSE <<"a", "b", "c">>[(i % 3) + 1]]

\* documents given to get_tags
Documents ==
    {<<"t", "e", "r", "m">>, RaftDoc}

\* documents given to the prompt builders: around both truncation lengths
PromptDocuments ==
    {<<>>, RaftDoc}
    \cup {LongDoc(n) : n \in {TitleDocChars - 1, TitleDocChars, TitleDocChars + 1,
                              TagsDocChars - 1, TagsDocChars, TagsDocChars + 1}}

Ok(s) ==
    [kind |-> "ok", content |-> s]

\* chat() raised, or its response has no ["message"]["content"] string
Failures ==
    {[kind |-> "error", content |-> <<>>],
     [kind |-> "malformed", content |-> <<>>]}

\* " Raft Consensus\n"
RaftTitle ==
    <<" ", "R", "a", "f", "t", " ", "C", "o", "n", "s", "e", "n", "s", "u", "s", "\n">>

\* "consensus, raft ,wal\n"
RaftTags ==
    <<"c", "o", "n", "s", "e", "n", "s", "u", "s", ",", " ", "r", "a", "f", "t",
      " ", ",", "w", "a", "l", "\n">>

\* "Explores leader election in Raft.\n"
RaftDescription ==
    <<"E", "x", "p", "l", "o", "r", "e", "s", " ", "l", "e", "a", "d", "e", "r", " ",
      "e", "l", "e", "c", "t", "i", "o", "n", " ", "i", "n", " ", "R", "a", "f", "t",
      ".", "\n">>

\* a dependency whose answers vary in category only
CategoryChat ==
    [title |-> {Ok(RaftTitle)},
     category |-> {Ok(DISTRIBUTED_SYSTEMS),
                   Ok(<<" ">> \o SYSTEMS \o <<"\n">>),
                   Ok(<<"B", "l", "o", "c", "k", "c", "h", "a", "i", "n">>),
                   Ok(<<"o", "t", "h", "e", "r">>),
                   Ok(<<>>),
                   Ok(Rep("c", CategoryMaxLen)),
                   Ok(Rep("c", CategoryMaxLen + 1))},
     tags |-> {Ok(RaftTags)},
     description |-> {Ok(RaftDescription)}]

\* a dependency whose answers sit on both sides of every length bound
LengthChat ==
    [title |-> {Ok(<<"R", " ">>),
                Ok(<<" ", "\n">>),
                Ok(<<" ">> \o Rep("t", TitleMaxLen) \o <<"\n">>),
                Ok(Rep("t", TitleMaxLen + 1))},
     category |-> {Ok(HARDWARE), Ok(<<"\t">> \o NETWORKS)},
     tags |-> {Ok(<<"x", "\n">>), Ok(RaftTags), Ok(<<" ", "\t">>)},
     description |-> {Ok(<<" ">> \o Rep("d", DescriptionMinLen) \o <<"\n">>),
                      Ok(Rep("d", DescriptionMinLen - 1) \o <<" ">>),
                      Ok(<<"\n">> \o Rep("d", DescriptionMaxLen)),
                      Ok(Rep("d", DescriptionMaxLen + 1))}]

\* the dependencies a tagger is run against, by name
ChatModels ==
    {"CategoryChat", "LengthChat"}

\* what the named dependency may answer at each step
Answers(name) ==
    IF name = "CategoryChat" THEN CategoryChat ELSE LengthChat

----------------------------------------------------------------------------
(* class DocumentTagger *)

NoResult ==
    [none |-> TRUE]

NoRequest ==
    [none |-> TRUE]

\* __init__(model_name, max_retries): nothing is validated
Init ==
    /\ max_retries \in NonPositiveRetries \cup (1..MaxRetriesBound)
    /\ chat \in ChatModels
    /\ document_content = <<>>
    /\ pc = "idle"
    /\ attempt = 0
    /\ title = <<>>
    /\ category = <<>>
    /\ tags = <<>>
    /\ description = <<>>
    /\ request = NoRequest
    /\ calls = 0
    /\ replies = <<>>
    /\ attemptLog = <<>>
    /\ log = <<>>
    /\ outcome = "pending"
    /\ result = NoResult

AttemptRangeAtLeastOnce(m) ==
    0..(IF m >= 1 THEN m - 1 ELSE 0)

\* range(self.max_retries)
AttemptRange(m) ==
    0..(m - 1)

IsFinalAttemptOffByOne(a, m) ==
    a = m

IsFinalAttemptAlways(a, m) ==
    TRUE

\* if attempt == self.max_retries - 1
IsFinalAttempt(a, m) ==
    a = m - 1

Warning(fn, n) ==
    [level |-> "WARNING", fn |-> fn, attempt |-> n]

ErrorRecord ==
    [level |-> "ERROR", fn |-> "get_tags", attempt |-> 0]

\* what the history keeps of a reply
Reply(reply) ==
    [ok |-> reply.kind = "ok", content |-> reply.content]

Answered(rs) ==
    [i \in 1..Len(rs) |-> rs[i].ok]

\* The except branch of get_tags for an attempt that ends after the replies
\* rs: log, then raise ValueError on the final attempt, else go on with the
\* next value of range(); a loop that runs out returns None.
\* fromCall: the exception came out of _get_single_field, which logged it too.
Except(rs, fromCall) ==
    /\ attemptLog' = Append(attemptLog, [attempt |-> attempt, answered |-> Answered(rs)])
    /\ replies' = <<>>
    /\ log' = log
              \o (IF fromCall THEN <<Warning("_get_single_field", attempt + 1)>> ELSE <<>>)
              \o <<Warning("get_tags", attempt + 1)>>
              \o (IF IsFinalAttempt(attempt, max_retries) THEN <<ErrorRecord>> ELSE <<>>)
    /\ IF IsFinalAttempt(attempt, max_retries)
       THEN /\ pc' = "done"
            /\ outcome' = "raised"
            /\ attempt' = attempt
       ELSE IF attempt + 1 \in AttemptRange(max_retries)
       THEN /\ pc' = "title"
            /\ outcome' = outcome
            /\ attempt' = attempt + 1
       ELSE /\ pc' = "done"
            /\ outcome' = "none"
            /\ attempt' = attempt

\* get_tags(document_content) is called: the loop is entered, or has no
\* iteration and the function falls off its end (returns None)
Invoke ==
    /\ pc = "idle"
    /\ \E doc \in Documents : document_content' = doc
    /\ IF 0 \in AttemptRange(max_retries)
       THEN pc' = "title" /\ outcome' = outcome
       ELSE pc' = "done" /\ outcome' = "none"
    /\ UNCHANGED <<max_retries, chat, attempt, title, category, tags, description,
                   request, calls, replies, attemptLog, log, result>>

\* one chat() round trip of _get_single_field for the given prompt
Chat(prompt) ==
    /\ request' = ChatRequest(prompt)
    /\ calls' = calls + 1

GetTitle ==
    /\ pc = "title"
    /\ \E reply \in Answers(chat).title \cup Failures :
        LET r == _get_single_field(reply)
            rs == Append(replies, Reply(reply))
        IN /\ Chat(_create_title_prompt(document_content))
           /\ IF r.raised
              THEN /\ Except(rs, TRUE)
                   /\ UNCHANGED title
              ELSE /\ title' = r.value
                   /\ pc' = "category"
                   /\ replies' = rs
                   /\ UNCHANGED <<attempt, attemptLog, log, outcome>>
    /\ UNCHANGED <<max_retries, chat, document_content, category, tags, description,
                   result>>

GetCategory ==
    /\ pc = "category"
    /\ \E reply \in Answers(chat).category \cup Failures :
        LET r == _get_single_field(reply)
            rs == Append(replies, Reply(reply))
        IN /\ Chat(_create_category_prompt(document_content, title))
           /\ IF r.raised
              THEN /\ Except(rs, TRUE)
                   /\ UNCHANGED category
              ELSE /\ category' = r.value
                   /\ pc' = "tags"
                   /\ replies' = rs
                   /\ UNCHANGED <<attempt, attemptLog, log, outcome>>
    /\ UNCHANGED <<max_retries, chat, document_content, title, tags, description,
                   result>>

GetTags ==
    /\ pc = "tags"
    /\ \E reply \in Answers(chat).tags \cup Failures :
        LET r == _get_single_field(reply)
            rs == Append(replies, Reply(reply))
        IN /\ Chat(_create_tags_prompt(document_content, title, category))
           /\ IF r.raised
              THEN /\ Except(rs, TRUE)
                   /\ UNCHANGED tags
              ELSE /\ tags' = r.value
                   /\ pc' = "description"
                   /\ replies' = rs
                   /\ UNCHANGED <<attempt, attemptLog, log, outcome>>
    /\ UNCHANGED <<max_retries, chat, document_content, title, category, description,
                   result>>

\* the fourth call, then tags_dict, TaggingModel(**tags_dict) and the return
GetDescription ==
    /\ pc = "description"
    /\ \E reply \in Answers(chat).description \cup Failures :
        LET r == _get_single_field(reply)
            rs == Append(replies, Reply(reply))
            tags_dict == [title |-> title, category |-> category,
                          tags |-> tags, description |-> r.value]
            validated_tags == TaggingModel(tags_dict)
        IN /\ Chat(_create_description_prompt(document_content, title, category, tags))
           /\ IF r.raised
              THEN /\ Except(rs, TRUE)
                   /\ UNCHANGED <<description, result>>
              ELSE /\ description' = r.value
                   /\ IF validated_tags.ok
                      THEN /\ result' = validated_tags.dump
                           /\ outcome' = "returned"
                           /\ pc' = "done"
                           /\ replies' = rs
                           /\ UNCHANGED <<attempt, attemptLog, log>>
                      ELSE /\ Except(rs, FALSE)
                           /\ UNCHANGED result
    /\ UNCHANGED <<max_retries, chat, document_content, title, category, tags>>

Next ==
    \/ Invoke
    \/ GetTitle
    \/ GetCategory
    \/ GetTags
    \/ GetDescription

Spec ==
    Init /\ [][Next]_vars

----------------------------------------------------------------------------
(* The prompt builders on their own: pure functions of their arguments *)

\* titles, categories and tags as _get_single_field hands them on
PromptTitles ==
    {strip(RaftTitle), Rep("t", TitleMaxLen)}

PromptCategories ==
    {DISTRIBUTED_SYSTEMS, OTHER_CATEGORY}

PromptTags ==
    {strip(RaftTags), <<"x">>}

InitPrompts ==
    /\ max_retries = MaxRetriesBound
    /\ chat = "CategoryChat"
    /\ document_content \in PromptDocuments
    /\ pc = "prompt"
    /\ attempt = 0
    /\ title \in PromptTitles
    /\ category \in PromptCategories
    /\ tags \in PromptTags
    /\ description = <<>>
    /\ request = NoRequest
    /\ calls = 0
    /\ replies = <<>>
    /\ attemptLog = <<>>
    /\ log = <<>>
    /\ outcome = "pending"
    /\ result = NoResult

PromptFrame ==
    UNCHANGED <<max_retries, document_content, pc, attempt, title, category, tags,
                description, chat, calls, replies, attemptLog, log, outcome, result>>

BuildTitlePrompt ==
    /\ pc = "prompt"
    /\ request' = ChatRequest(_create_title_prompt(document_content))
    /\ PromptFrame

BuildCategoryPrompt ==
    /\ pc = "prompt"
    /\ request' = ChatRequest(_create_category_prompt(document_content, title))
    /\ PromptFrame

BuildTagsPrompt ==
    /\ pc = "prompt"
    /\ request' = ChatRequest(_create_tags_prompt(document_content, title, category))
    /\ PromptFrame

BuildDescriptionPrompt ==
    /\ pc = "prompt"
    /\ request' = ChatRequest(_create_description_prompt(document_content, title,
                                                         category, tags))
    /\ PromptFrame

NextPrompts ==
    \/ BuildTitlePrompt
    \/ BuildCategoryPrompt
    \/ BuildTagsPrompt
    \/ BuildDescriptionPrompt

SpecPrompts ==
    InitPrompts /\ [][NextPrompts]_vars

----------------------------------------------------------------------------
(* Vocabulary of the properties, written without the operators above *)

\* the data model states max_retries >= 1; C10 covers the other taggers
RetriesAtLeastOne ==
    max_retries >= 1

Steps ==
    <<"title", "category", "tags", "description">>

FourAnswers ==
    <<TRUE, TRUE, TRUE, TRUE>>

LeadingWs(s) ==
    Cardinality({i \in 1..Len(s) : \A j \in 1..i : s[j] \in Whitespace})

TrailingWs(s) ==
    Cardinality({i \in 1..Len(s) : \A j \in i..Len(s) : s[j] \in Whitespace})

\* number of characters of s between its first and last non-whitespace one
StrippedLen(s) ==
    IF LeadingWs(s) = Len(s) THEN 0 ELSE Len(s) - LeadingWs(s) - TrailingWs(s)

\* t is s without its leading and trailing whitespace
IsStripOf(t, s) ==
    LET lead == LeadingWs(s)
        n == IF lead = Len(s) THEN 0 ELSE Len(s) - lead - TrailingWs(s)
    IN t = SubSeq(s, lead + 1, lead + n)

\* c is the first n characters of d, all of d when d is shorter
IsPrefixUpTo(c, d, n) ==
    /\ Len(c) <= n
    /\ Len(c) <= Len(d)
    /\ Len(c) = n \/ Len(c) = Len(d)
    /\ \A i \in 1..Len(c) : c[i] = d[i]

RECURSIVE CallsOf(_)
\* chat() invocations of the failed attempts in a log
CallsOf(entries) ==
    IF entries = <<>>
    THEN 0
    ELSE Len(entries[1].answered) + CallsOf(Tail(entries))

LastEntry ==
    attemptLog[Len(attemptLog)]

\* the attempt that just ended got four answers and failed validation; no
\* call has been made since, so the locals still hold that attempt's fields
ValidationJustFailed ==
    /\ attemptLog # <<>>
    /\ replies = <<>>
    /\ LastEntry.answered = FourAnswers

TitleInBounds(t) ==
    1 <= Len(t) /\ Len(t) <= 200

TagsInBounds(g) ==
    1 <= Len(g)

DescriptionInBounds(d) ==
    10 <= Len(d) /\ Len(d) <= 1000

CategoryInBounds(c) ==
    1 <= Len(c) /\ Len(c) <= 50

----------------------------------------------------------------------------
\* C1: for a tagger with max_retries >= 1, get_tags is either still running
\* (no outcome, no result) or has ended in exactly one of two outcomes: it
\* returned a record whose category is a member of DocumentCategory, or it
\* raised the retries-exhausted ValueError; it never returns nothing and
\* never returns a category outside the set.
C1_RecordInCategorySetOrExhausted ==
    RetriesAtLeastOne =>
        /\ pc # "done" => outcome = "pending" /\ result = NoResult
        /\ pc = "done" =>
            \/ /\ outcome = "returned"
               /\ result # NoResult
               /\ result.category \in DocumentCategory
            \/ /\ outcome = "raised"
               /\ result = NoResult

\* a record was returned whose category the dependency answered outside the set
C1_Witness ==
    /\ RetriesAtLeastOne
    /\ outcome = "returned"
    /\ category \notin DocumentCategory
    /\ result.category = OTHER_CATEGORY

\* C2: for a tagger with max_retries >= 1, a call in which no attempt
\* succeeds raises the retries-exhausted error, and it is raised after exactly
\* max_retries attempts: every failed attempt, by a call error at any step or
\* by a validation error, consumes exactly one value of the single attempt
\* counter.
C2_ExhaustedAfterExactlyMaxRetries ==
    RetriesAtLeastOne =>
        /\ \A i \in 1..Len(attemptLog) : attemptLog[i].attempt = i - 1
        /\ outcome # "raised" => Len(attemptLog) = attempt
        /\ outcome = "raised" =>
            /\ Len(attemptLog) = max_retries
            /\ attempt = max_retries - 1
        /\ pc = "done" /\ outcome # "returned" => outcome = "raised"

\* exhausted by one attempt that failed in a call and one that failed validation
C2_Witness ==
    /\ outcome = "raised"
    /\ max_retries >= 2
    /\ \E i \in 1..Len(attemptLog) : attemptLog[i].answered # FourAnswers
    /\ \E i \in 1..Len(attemptLog) : attemptLog[i].answered = FourAnswers

\* C3 as stated: whenever the four calls of an attempt answered and the
\* category is not a member of DocumentCategory (empty and over-long
\* categories included) while the other three fields are within bounds,
\* validation succeeds with category "Other".
C3_AnyNonMemberCoerced ==
    /\ outcome = "returned" /\ category \notin DocumentCategory =>
        result.category = OTHER_CATEGORY
    /\ ~ /\ ValidationJustFailed
         /\ category \notin DocumentCategory
         /\ TitleInBounds(title)
         /\ TagsInBounds(tags)
         /\ DescriptionInBounds(description)

\* C3, amended: a category (as stripped by _get_single_field) of 1 to 50
\* characters that is not a member of DocumentCategory is replaced by
\* "Other" and the record validates when the other fields are within bounds;
\* a record is never returned with a category outside 1..50 characters.
C3_NonMemberWithinLengthCoerced ==
    /\ outcome = "returned" /\ category \notin DocumentCategory =>
        /\ result.category = OTHER_CATEGORY
        /\ CategoryInBounds(category)
    /\ ~ /\ ValidationJustFailed
         /\ category \notin DocumentCategory
         /\ CategoryInBounds(category)
         /\ TitleInBounds(title)
         /\ TagsInBounds(tags)
         /\ DescriptionInBounds(description)

\* a non-member of exactly 50 characters was coerced
C3_Witness ==
    /\ outcome = "returned"
    /\ Len(category) = 50
    /\ category \notin DocumentCategory
    /\ result.category = OTHER_CATEGORY

\* C4: a returned record has a title of 1..200 characters, a description of
\* 10..1000 characters and non-empty tags, and so have the whitespace-stripped
\* answers it was built from; an attempt that failed validation had a field
\* out of bounds.
C4_ReturnedRecordWithinBounds ==
    /\ outcome = "returned" =>
        /\ TitleInBounds(result.title)
        /\ TagsInBounds(result.tags)
        /\ DescriptionInBounds(result.description)
        /\ 1 <= StrippedLen(replies[1].content)
        /\ StrippedLen(replies[1].content) <= 200
        /\ 1 <= StrippedLen(replies[3].content)
        /\ 10 <= StrippedLen(replies[4].content)
        /\ StrippedLen(replies[4].content) <= 1000
    /\ ValidationJustFailed =>
        ~ /\ TitleInBounds(title)
          /\ CategoryInBounds(category)
          /\ TagsInBounds(tags)
          /\ DescriptionInBounds(description)

\* a record at the upper bounds was returned after an attempt failed validation
C4_Witness ==
    /\ outcome = "returned"
    /\ Len(result.title) = 200
    /\ Len(result.description) = 1000
    /\ attemptLog # <<>>
    /\ attemptLog[1].answered = FourAnswers

\* C5: for a tagger with max_retries >= 1, a failed call is the last call
\* of its attempt (an attempt whose k-th call fails issues exactly k calls),
\* the calls made are those of the failed attempts plus those of the running
\* one, they never exceed 4 * max_retries, and they are exactly
\* 4 * max_retries when the retries are exhausted by attempts that each made
\* four calls.
C5_CallsPerFailedAttempt ==
    RetriesAtLeastOne =>
        /\ \A i \in 1..Len(attemptLog) :
            LET a == attemptLog[i].answered
            IN /\ Len(a) \in 1..4
               /\ \A k \in 1..(Len(a) - 1) : a[k]
        /\ calls = CallsOf(attemptLog) + Len(replies)
        /\ calls <= 4 * max_retries
        /\ /\ outcome = "raised"
           /\ \A i \in 1..Len(attemptLog) : Len(attemptLog[i].answered) = 4
           => calls = 4 * max_retries

\* exhausted with fewer than 4 * max_retries calls, one attempt failing at its second call
C5_Witness ==
    /\ outcome = "raised"
    /\ max_retries >= 2
    /\ calls < 4 * max_retries
    /\ \E i \in 1..Len(attemptLog) : attemptLog[i].answered = <<TRUE, FALSE>>
    /\ \E i \in 1..Len(attemptLog) : attemptLog[i].answered = <<TRUE, TRUE, TRUE, FALSE>>

\* what holds of a returned record
C6_Returned ==
    outcome = "returned" =>
        /\ pc = "done"
        /\ Len(replies) = 4
        /\ \A i \in 1..4 : replies[i].ok
        /\ IsStripOf(result.title, replies[1].content)
        /\ IsStripOf(result.tags, replies[3].content)
        /\ IsStripOf(result.description, replies[4].content)
        /\ IsStripOf(category, replies[2].content)
        /\ result.category =
               IF category \in DocumentCategory THEN category ELSE OTHER_CATEGORY
        /\ Len(attemptLog) = attempt
        /\ calls = CallsOf(attemptLog) + 4
        /\ attempt = 0 => calls = 4 /\ log = <<>>

\* C6: a returned record is made of the four answers of the attempt that
\* returned it, stripped, with the category kept when it is a member of
\* DocumentCategory and "Other" otherwise; it is returned by the first
\* attempt that succeeds (every earlier attempt failed), right after that
\* attempt's fourth call, and nothing happens after the return; when the
\* first attempt succeeds, chat was called exactly four times and nothing
\* was logged.
C6_ReturnsFirstSuccessImmediately ==
    /\ []C6_Returned
    /\ [][outcome = "returned" => UNCHANGED vars]_vars

\* the first attempt returned the Raft record, with retries left unused
C6_Witness ==
    /\ outcome = "returned"
    /\ max_retries >= 2
    /\ attempt = 0
    /\ calls = 4
    /\ result.title = SubSeq(RaftTitle, 2, Len(RaftTitle) - 1)
    /\ result.category = DISTRIBUTED_SYSTEMS
    /\ result.tags = SubSeq(RaftTags, 1, Len(RaftTags) - 1)
    /\ result.description = SubSeq(RaftDescription, 1, Len(RaftDescription) - 1)

\* a step in which an attempt ends in failure
AttemptFails ==
    Len(attemptLog') = Len(attemptLog) + 1

\* what a failing attempt is followed by
C7_Step ==
    RetriesAtLeastOne /\ AttemptFails =>
        /\ log'[Len(log') - (IF attempt = max_retries - 1 THEN 1 ELSE 0)]
               = [level |-> "WARNING", fn |-> "get_tags", attempt |-> attempt + 1]
        /\ IF attempt = max_retries - 1
           THEN /\ outcome' = "raised"
                /\ pc' = "done"
           ELSE /\ outcome' = "pending"
                /\ pc' = "title"
                /\ attempt' = attempt + 1

\* where the error is raised
C7_Raised ==
    RetriesAtLeastOne /\ outcome = "raised" =>
        /\ attempt = max_retries - 1
        /\ LastEntry.attempt = max_retries - 1
        /\ result = NoResult

\* C7: for a tagger with max_retries >= 1, the retries-exhausted error is
\* raised only by the failure of attempt number max_retries (and then no
\* record exists), and the failure of any earlier attempt is logged as a
\* warning and followed by the start of the next attempt with no outcome.
C7_OnlyExhaustionSurfaces ==
    /\ []C7_Raised
    /\ [][C7_Step]_vars
    /\ [][RetriesAtLeastOne /\ outcome' = "raised" /\ outcome # "raised" => AttemptFails]_vars

\* an earlier attempt failed in a call and the next attempt has started
C7_Witness ==
    /\ max_retries = 2
    /\ attempt = 1
    /\ pc = "title"
    /\ outcome = "pending"
    /\ Len(attemptLog) = 1
    /\ attemptLog[1].answered = <<TRUE, TRUE, FALSE>>

\* C8: the document text in a title prompt is exactly the first 1000
\* characters of the document (all of it when shorter), and the document
\* text in a tags prompt is exactly its first 1500 characters.
C8_PromptTruncation ==
    request # NoRequest =>
        /\ request.user.field = "title" =>
            IsPrefixUpTo(request.user.context, document_content, 1000)
        /\ request.user.field = "tags" =>
            IsPrefixUpTo(request.user.context, document_content, 1500)

\* a tags prompt of a document longer than 1500 characters
C8_Witness ==
    /\ request # NoRequest
    /\ request.user.field = "tags"
    /\ Len(document_content) > 1500
    /\ Len(request.user.context) = 1500

\* what holds of each chat() call
C9_Call ==
    calls' # calls =>
        LET k == Len(replies) + 1
            p == request'.user
        IN /\ calls' = calls + 1
           /\ k \in 1..4
           /\ p.field = Steps[k]
           /\ \A i \in 1..Len(replies) : replies[i].ok
           /\ k >= 2 => IsStripOf(p.title, replies[1].content)
           /\ k >= 3 => IsStripOf(p.category, replies[2].content)
           /\ k = 4 => IsStripOf(p.tags, replies[3].content)

\* the returned record is made of this attempt's answers
C9_Record ==
    outcome = "returned" =>
        /\ IsStripOf(result.title, replies[1].content)
        /\ IsStripOf(result.tags, replies[3].content)
        /\ IsStripOf(result.description, replies[4].content)

\* C9: call number k of an attempt is the k-th of title, category, tags,
\* description and is made only after the earlier calls of the attempt
\* answered; the category prompt carries this attempt's title, the tags
\* prompt this attempt's title and category, the description prompt this
\* attempt's title, category and tags; a returned record carries this
\* attempt's title, tags and description.
C9_SequentialConditionedCalls ==
    /\ [][C9_Call]_vars
    /\ []C9_Record

\* the second attempt reached its description step, its tags prompt built
\* from a new title, while description still holds the over-long answer
\* that made the first attempt fail validation
C9_Witness ==
    /\ attempt = 1
    /\ pc = "description"
    /\ attemptLog[1].answered = FourAnswers
    /\ request.user.field = "tags"
    /\ Len(request.user.title) = 1
    /\ Len(title) = 1
    /\ Len(description) > 1000

\* C10: a tagger may be constructed with max_retries <= 0, and its get_tags
\* makes no call and no attempt, logs nothing, and ends returning nothing:
\* no record, no retries-exhausted error.
C10_NoAttemptWithoutRetries ==
    max_retries <= 0 =>
        /\ calls = 0
        /\ request = NoRequest
        /\ attemptLog = <<>>
        /\ log = <<>>
        /\ result = NoResult
        /\ pc \in {"idle", "done"}
        /\ pc = "idle" => outcome = "pending"
        /\ pc = "done" => outcome = "none"

\* get_tags of a tagger with max_retries = 0 has ended
C10_Witness ==
    /\ max_retries = 0
    /\ pc = "done"
    /\ outcome = "none"
    /\ document_content = RaftDoc
====
